---- MODULE Spec2Model ----
(***************************************************************************)
(* Model of md2pdf.py: the artifact extractor (extract_artifacts,          *)
(* extract_inline_svg, extract_inline_mermaid) and the rendering chains    *)
(* (process_svg_artifact, process_mermaid_artifact, improved_code_image).  *)
(*                                                                         *)
(* SpecRender runs one artifact through its rendering chain, one step per  *)
(* strategy; what each external tool does is chosen by the environment.    *)
(* SpecExtract runs extract_artifacts on every document of a bounded       *)
(* token alphabet.                                                         *)
(* SpecResolve follows it with replace_artifacts_in_markdown, SpecGraph    *)
(* parses a flowchart text into the graph handed to graphviz, SpecRepair   *)
(* applies fix_svg_errors twice to a vector document, and SpecConvert      *)
(* follows one run of process_markdown_to_pdf through its I/O steps.       *)
(***************************************************************************)
EXTENDS Integers, Sequences, FiniteSets, TLC

VARIABLES
    \* ---- rendering (process_svg_artifact / process_mermaid_artifact) ----
    artType,             \* artifact['type'] as dispatched: "svg" or "mermaid"
    mermaid_content,     \* how the diagram text begins (mermaid artifacts)
    MERMAID_AVAILABLE,   \* module-level flag set at import time
    pc,                  \* position inside the running function
    conversion_success,  \* local flag of process_mermaid_artifact
    png,                 \* state of <id>.png in the working directory
    svgfile,             \* state of <id>.svg in the working directory
    image_path,          \* file the returned reference names
    raised,              \* an exception left the function
    trail,               \* log of the strategies attempted, in order
    \* ---- extraction (extract_artifacts) ----
    markdown_text,       \* the input document, a sequence of tokens
    processed_text,      \* the sanitized text returned
    artifacts,           \* the artifact map returned (insertion ordered)
    issued,              \* log of the ids given to recognized blocks
    phase,               \* "input" before the call, "extracted" after
    \* ---- resolution (replace_artifacts_in_markdown) ----
    result_lines,        \* the lines of the text returned
    handed,              \* log of the artifacts handed to a rendering function
    \* ---- graph parsing (method 2 of process_mermaid_artifact) ----
    diagram,             \* mermaid_content: its first line and its body lines
    nodes,               \* nodes and node_styles, one record per node id
    edges,               \* edges, in the order they were appended
    dot,                 \* what has been put into the graphviz.Digraph
    gpc,                 \* "text", then "parsed", then "handed"
    \* ---- repair (fix_svg_errors) ----
    svg_code,            \* the vector markup given to the first call
    fixed,               \* what each call returned, one entry per call
    runs,                \* how many times fix_svg_errors has been called
    \* ---- a conversion run (process_markdown_to_pdf) ----
    cpc,                 \* position inside the run
    temp_dir,            \* the working directory: "absent", "exists", "removed"
    queue,               \* the artifacts whose placeholders are still ahead
    typeset,             \* how many times pandoc has been invoked
    faults,              \* the failures that happened, by stage
    outcome              \* "running", then "returned" or "raised"

renderVars == <<artType, mermaid_content, MERMAID_AVAILABLE, pc,
                conversion_success, png, svgfile, image_path, raised, trail>>
extractVars == <<markdown_text, processed_text, artifacts, issued, phase>>
resolveVars == <<result_lines, handed>>
graphVars == <<diagram, nodes, edges, dot, gpc>>
repairVars == <<svg_code, fixed, runs>>
convertVars == <<cpc, temp_dir, queue, typeset, faults, outcome>>
vars == <<renderVars, extractVars, resolveVars, graphVars, repairVars,
         convertVars>>

\* What a step of a rendering function, and what extract_artifacts, leaves
\* alone.
outsideRender == <<extractVars, resolveVars, graphVars, repairVars, convertVars>>
outsideExtract == <<renderVars, resolveVars, graphVars, repairVars, convertVars>>
outsideResolve == <<renderVars, graphVars, repairVars, convertVars>>
outsideGraph == <<renderVars, extractVars, resolveVars, repairVars, convertVars>>
outsideRepair == <<renderVars, extractVars, resolveVars, graphVars,
                  convertVars>>
outsideConvert == <<renderVars, extractVars, resolveVars, graphVars,
                   repairVars>>

(***************************************************************************)
(* Rendering: the environment                                              *)
(***************************************************************************)

\* A file of the working directory: not there, there with at most 100
\* bytes, or there with a usable image.
FileStates == {"absent", "small", "valid"}

\* What one run of a tool can do.  "missing": the tool is not installed;
\* "nonzero": it exits non-zero or the library call raises; "timeout": the
\* bounded wait expires; "nofile" and "small": the run reports success but
\* leaves no output file or an undersized one; "ok": a usable image.
ErrorOutcomes == {"missing", "nonzero", "timeout"}
SilentOutcomes == {"nofile", "small"}
FailureOutcomes == ErrorOutcomes \cup SilentOutcomes

\* subprocess.run(["inkscape", ...], check=True): no timeout is passed.
InkscapeOutcomes == {"ok", "missing", "nonzero", "nofile", "small"}
\* cairosvg.svg2png: a library call; it writes its output or raises.
CairoOutcomes == {"ok", "nonzero", "small"}
\* Graph.from_str(...).render_png(...)
MermaidPyOutcomes == {"ok", "nonzero", "nofile", "small"}
\* import graphviz; dot.render(...)
GraphvizOutcomes == {"ok", "missing", "nonzero", "nofile", "small"}
\* subprocess.run(["npx", "@mermaid-js/mermaid-cli", ...], check=True, timeout=30)
MermaidCliOutcomes == {"ok", "missing", "nonzero", "timeout", "nofile", "small"}

\* The output file after a run with outcome o, given what was there before.
Written(o, before) ==
    CASE o = "ok" -> "valid"
      [] o = "small" -> "small"
      [] OTHER -> before

\* os.path.exists(path)
Exists(f) == f # "absent"

\* os.path.exists(path) and os.path.getsize(path) > 100
ExistsAndBigEnough(f) == f = "valid"

\* Diagram texts by the way they begin: "flowchart TD...", "graph TD..."
\* (graph followed by a space), "graph;..." (graph followed by anything
\* else) and a diagram of another kind.
DiagramHeads == {"flowchart", "graph_space", "graph_other", "sequenceDiagram"}

\* if mermaid_content.startswith('graph '): 'flowchart ' + mermaid_content[6:]
GraphToFlowchart(c) == IF c = "graph_space" THEN "flowchart" ELSE c

StartsWithFlowchart(c) == c = "flowchart"
StartsWithGraph(c) == c \in {"graph_space", "graph_other"}

\* The exception a run with outcome o ends in, "none" when it returns.
\* subprocess.run raises FileNotFoundError for a missing executable,
\* CalledProcessError under check=True, TimeoutExpired under timeout=.
SubprocessRaises(o) ==
    CASE o = "missing" -> "FileNotFoundError"
      [] o = "nonzero" -> "CalledProcessError"
      [] o = "timeout" -> "TimeoutExpired"
      [] OTHER -> "none"

\* A library call (cairosvg, mermaid-py, graphviz): import graphviz raises
\* ImportError, a failed call raises the library's own exception.
LibraryRaises(o) ==
    CASE o = "missing" -> "ImportError"
      [] o = "nonzero" -> "LibraryError"
      [] OTHER -> "none"

\* class CalledProcessError(SubprocessError), class TimeoutExpired(SubprocessError)
SubprocessError == {"CalledProcessError", "TimeoutExpired"}

\* except (subprocess.SubprocessError, FileNotFoundError), in process_svg_artifact
InkscapeCatches(e) == e \in SubprocessError \cup {"FileNotFoundError"}

\* Method 3 with an except clause that forgets the timeout:
\* except (subprocess.CalledProcessError, FileNotFoundError)
MermaidCliCatchesNoTimeout(e) == e \in {"CalledProcessError", "FileNotFoundError"}

\* except (subprocess.SubprocessError, FileNotFoundError) as e, method 3
MermaidCliCatches(e) == e \in SubprocessError \cup {"FileNotFoundError"}

Attempt(s, o, acc) == [s |-> s, o |-> o, acc |-> acc]

(***************************************************************************)
(* process_svg_artifact                                                    *)
(***************************************************************************)

\* with open(svg_path, 'w') as f: f.write(svg_content)
SvgStart ==
    /\ artType = "svg" /\ pc = "start"
    /\ svgfile' = "valid"
    /\ pc' = "inkscape"
    /\ UNCHANGED outsideRender
    /\ UNCHANGED <<artType, mermaid_content, MERMAID_AVAILABLE,
                   conversion_success, png, image_path, raised, trail>>

\* inner try: subprocess.run(inkscape, check=True); image_path = png_path.
\* The inner except clause goes on to cairosvg; any other exception reaches
\* the outer except Exception, which sets image_path = svg_path.
Inkscape ==
    /\ pc = "inkscape"
    /\ \E o \in InkscapeOutcomes :
        LET e == SubprocessRaises(o) IN
        /\ png' = Written(o, png)
        /\ IF e = "none"
             THEN /\ pc' = "return"
                  /\ image_path' = "png"
                  /\ trail' = Append(trail, Attempt("inkscape", o, TRUE))
             ELSE IF InkscapeCatches(e)
             THEN /\ pc' = "cairosvg"
                  /\ image_path' = image_path
                  /\ trail' = Append(trail, Attempt("inkscape", o, FALSE))
             ELSE /\ pc' = "return"
                  /\ image_path' = "svg"
                  /\ trail' = trail \o <<Attempt("inkscape", o, FALSE),
                                         Attempt("raw_svg", "ok", TRUE)>>
    /\ UNCHANGED outsideRender
    /\ UNCHANGED <<artType, mermaid_content, MERMAID_AVAILABLE,
                   conversion_success, svgfile, raised>>

\* inner except: cairosvg.svg2png(...); image_path = png_path.
\* outer except Exception: image_path = svg_path.
CairoSvg ==
    /\ pc = "cairosvg"
    /\ \E o \in CairoOutcomes :
        LET e == LibraryRaises(o) IN
        /\ png' = Written(o, png)
        /\ IF e = "none"
             THEN /\ image_path' = "png"
                  /\ trail' = Append(trail, Attempt("cairosvg", o, TRUE))
             ELSE /\ image_path' = "svg"
                  /\ trail' = trail \o <<Attempt("cairosvg", o, FALSE),
                                         Attempt("raw_svg", "ok", TRUE)>>
    /\ pc' = "return"
    /\ UNCHANGED outsideRender
    /\ UNCHANGED <<artType, mermaid_content, MERMAID_AVAILABLE,
                   conversion_success, svgfile, raised>>

\* return f"![{caption}]({just_filename})..."
SvgReturn ==
    /\ artType = "svg" /\ pc = "return"
    /\ pc' = "done"
    /\ UNCHANGED outsideRender
    /\ UNCHANGED <<artType, mermaid_content, MERMAID_AVAILABLE,
                   conversion_success, png, svgfile, image_path, raised, trail>>

(***************************************************************************)
(* process_mermaid_artifact                                                *)
(***************************************************************************)

\* graph -> flowchart; write <id>.mmd; conversion_success = False
MermaidStart ==
    /\ artType = "mermaid" /\ pc = "start"
    /\ mermaid_content' = GraphToFlowchart(mermaid_content)
    /\ conversion_success' = FALSE
    /\ pc' = "mermaid_py"
    /\ UNCHANGED outsideRender
    /\ UNCHANGED <<artType, MERMAID_AVAILABLE, png, svgfile, image_path,
                   raised, trail>>

\* Method 1: if MERMAID_AVAILABLE and not conversion_success
MermaidPyGuard == MERMAID_AVAILABLE /\ ~conversion_success

\* try: Graph.from_str(...).render_png(png_path);
\*      conversion_success = os.path.exists(png_path)
\* except Exception
MermaidPy ==
    /\ pc = "mermaid_py"
    /\ IF MermaidPyGuard
         THEN \E o \in MermaidPyOutcomes :
                LET e == LibraryRaises(o) IN
                /\ png' = Written(o, png)
                /\ conversion_success' =
                       IF e = "none" THEN Exists(png') ELSE conversion_success
                /\ trail' = Append(trail,
                       Attempt("mermaid_py", o, e = "none" /\ Exists(png')))
         ELSE UNCHANGED <<png, conversion_success, trail>>
    /\ pc' = "graphviz"
    /\ UNCHANGED outsideRender
    /\ UNCHANGED <<artType, mermaid_content, MERMAID_AVAILABLE, svgfile,
                   image_path, raised>>

\* Method 2: if not conversion_success and mermaid_content.startswith('flowchart')
\*            or mermaid_content.startswith('graph')
GraphvizGuard ==
    (~conversion_success /\ StartsWithFlowchart(mermaid_content))
        \/ StartsWithGraph(mermaid_content)

\* try: import graphviz; ...; dot.render(dot_output, cleanup=True);
\*      if os.path.exists(png_output): conversion_success = True
\* except Exception
Graphviz ==
    /\ pc = "graphviz"
    /\ IF GraphvizGuard
         THEN \E o \in GraphvizOutcomes :
                LET e == LibraryRaises(o) IN
                /\ png' = Written(o, png)
                /\ conversion_success' =
                       IF e = "none" /\ Exists(png') THEN TRUE
                       ELSE conversion_success
                /\ trail' = Append(trail,
                       Attempt("graphviz", o, e = "none" /\ Exists(png')))
         ELSE UNCHANGED <<png, conversion_success, trail>>
    /\ pc' = "mermaid_cli"
    /\ UNCHANGED outsideRender
    /\ UNCHANGED <<artType, mermaid_content, MERMAID_AVAILABLE, svgfile,
                   image_path, raised>>

\* Method 3: if not conversion_success:
\* try: subprocess.run(npx mermaid-cli, check=True, timeout=30);
\*      if os.path.exists(png_path) and os.path.getsize(png_path) > 100:
\*          conversion_success = True
\* except (subprocess.SubprocessError, FileNotFoundError)
MermaidCli ==
    /\ pc = "mermaid_cli"
    /\ IF ~conversion_success
         THEN \E o \in MermaidCliOutcomes :
                LET e == SubprocessRaises(o) IN
                /\ png' = Written(o, png)
                /\ conversion_success' =
                       IF e = "none" /\ ExistsAndBigEnough(png') THEN TRUE
                       ELSE conversion_success
                /\ trail' = Append(trail,
                       Attempt("mermaid_cli", o,
                               e = "none" /\ ExistsAndBigEnough(png')))
                /\ IF e = "none" \/ MermaidCliCatches(e)
                     THEN pc' = "text_box" /\ raised' = raised
                     ELSE pc' = "done" /\ raised' = TRUE
         ELSE /\ UNCHANGED <<png, conversion_success, trail, raised>>
              /\ pc' = "text_box"
    /\ UNCHANGED outsideRender
    /\ UNCHANGED <<artType, mermaid_content, MERMAID_AVAILABLE, svgfile,
                   image_path>>

\* Method 4: if not conversion_success:
\* try: write <id>.svg holding the diagram text in a box;
\*      cairosvg.svg2png(...); conversion_success = True
\* except Exception
TextBox ==
    /\ pc = "text_box"
    /\ IF ~conversion_success
         THEN \E o \in CairoOutcomes :
                LET e == LibraryRaises(o) IN
                /\ svgfile' = "valid"
                /\ png' = Written(o, png)
                /\ conversion_success' = (e = "none")
                /\ trail' = Append(trail, Attempt("text_box", o, e = "none"))
         ELSE UNCHANGED <<svgfile, png, conversion_success, trail>>
    /\ pc' = "code_image"
    /\ UNCHANGED outsideRender
    /\ UNCHANGED <<artType, mermaid_content, MERMAID_AVAILABLE, image_path,
                   raised>>

\* improved_code_image(output_path, code_content, title): the files after
\* the call, <<png, svg>>.  On an exception of the rasterizer the markup is
\* saved under output_path.replace('.png', '.svg').
improved_code_image(o, pngBefore, svgBefore) ==
    IF LibraryRaises(o) = "none"
      THEN <<Written(o, pngBefore), svgBefore>>
      ELSE <<pngBefore, "valid">>

\* The file whose name process_mermaid_artifact returns:
\* rel_path = os.path.basename(png_path)
MermaidReference == "png"

\* if not conversion_success: improved_code_image(png_path, ...)
FinalGuard == ~conversion_success

\* the last resort, then return f"![{caption}]({rel_path})..."
CodeImage ==
    /\ pc = "code_image"
    /\ IF FinalGuard
         THEN \E o \in CairoOutcomes :
                /\ png' = improved_code_image(o, png, svgfile)[1]
                /\ svgfile' = improved_code_image(o, png, svgfile)[2]
                /\ trail' = Append(trail, Attempt("code_image", o, TRUE))
         ELSE UNCHANGED <<png, svgfile, trail>>
    /\ image_path' = MermaidReference
    /\ pc' = "done"
    /\ UNCHANGED outsideRender
    /\ UNCHANGED <<artType, mermaid_content, MERMAID_AVAILABLE,
                   conversion_success, raised>>

\* One artifact, handed to process_svg_artifact or process_mermaid_artifact
\* in a fresh working directory; extract_artifacts is not running.
RenderInit ==
    /\ artType \in {"svg", "mermaid"}
    /\ mermaid_content \in (IF artType = "mermaid" THEN DiagramHeads ELSE {"-"})
    /\ MERMAID_AVAILABLE \in BOOLEAN
    /\ pc = "start"
    /\ conversion_success = FALSE
    /\ png = "absent"
    /\ svgfile = "absent"
    /\ image_path = "none"
    /\ raised = FALSE
    /\ trail = <<>>
    /\ markdown_text = <<>>
    /\ processed_text = <<>>
    /\ artifacts = <<>>
    /\ issued = <<>>
    /\ phase = "idle"
    /\ result_lines = <<>>
    /\ handed = <<>>
    /\ diagram = <<>>
    /\ nodes = <<>>
    /\ edges = <<>>
    /\ dot = <<>>
    /\ gpc = "idle"
    /\ cpc = "idle"
    /\ temp_dir = "absent"
    /\ queue = <<>>
    /\ typeset = 0
    /\ faults = {}
    /\ outcome = "idle"
    /\ svg_code = <<>>
    /\ fixed = <<>>
    /\ runs = 0

RenderNext ==
    \/ SvgStart \/ Inkscape \/ CairoSvg \/ SvgReturn
    \/ MermaidStart \/ MermaidPy \/ Graphviz \/ MermaidCli \/ TextBox
    \/ CodeImage

SpecRender == RenderInit /\ [][RenderNext]_vars

(***************************************************************************)
(* Properties of the rendering chains                                      *)
(***************************************************************************)

Tried(s) == \E i \in DOMAIN trail : trail[i].s = s

\* The strategies after which nothing more can be tried.
LastResorts == {"code_image", "raw_svg"}

\* Position of a strategy in the chain of its artifact type.
Rank(s) ==
    CASE s = "inkscape" -> 1 [] s = "cairosvg" -> 2 [] s = "raw_svg" -> 3
      [] s = "mermaid_py" -> 1 [] s = "graphviz" -> 2 [] s = "mermaid_cli" -> 3
      [] s = "text_box" -> 4 [] s = "code_image" -> 5

\* The file of the working directory that the returned reference names.
ReferencedFile == IF image_path = "svg" THEN svgfile ELSE png

\* A run that ended in an error or left no output file at all.
RunFailed(a) == a.o \in ErrorOutcomes \cup {"nofile"}

AllEarlierRunsFailed ==
    \A i \in DOMAIN trail : trail[i].s \notin LastResorts => RunFailed(trail[i])

NoSilentRun == \A i \in DOMAIN trail : trail[i].o \notin SilentOutcomes

\* C2: whatever the strategies did, the rasterizer of the last one failing
\* included, the reference returned by process_svg_artifact /
\* process_mermaid_artifact names a file that exists in the working
\* directory when the function returns.  Stated for the runs in which no
\* tool reported success without a usable output.
C2_ReferenceNamesExistingFile ==
    (pc = "done" /\ ~raised /\ NoSilentRun) => Exists(ReferencedFile)

\* C3: at every strategy but the last of a chain, a conversion failure
\* (tool missing, non-zero exit, undersized or missing output, timeout) is
\* followed by an attempt of a later strategy, and nothing is raised.
C3_FailureAdvances ==
    pc = "done" =>
        /\ ~raised
        /\ \A i \in DOMAIN trail :
              (trail[i].s \notin LastResorts /\ trail[i].o \in FailureOutcomes)
                  => /\ i < Len(trail)
                     /\ Rank(trail[i + 1].s) > Rank(trail[i].s)

\* C4: the strategies of a diagram artifact run in their priority order,
\* and one is attempted only when no earlier strategy has produced an
\* accepted asset, whatever the diagram text.  Stated for the runs in which
\* no tool reported success without a usable output.
C4_StopsAtFirstAccepted ==
    (artType = "mermaid" /\ NoSilentRun) =>
        \A i, j \in DOMAIN trail :
            i < j => /\ Rank(trail[i].s) < Rank(trail[j].s)
                     /\ ~trail[i].acc

\* C5: for a vector artifact cairosvg is attempted whenever inkscape has
\* failed, whatever the failure, and the original markup is referenced
\* only when both converters have failed.
C5_SvgChain ==
    (pc = "done" /\ artType = "svg") =>
        /\ \A i \in DOMAIN trail :
              (trail[i].s = "inkscape" /\ trail[i].o \in FailureOutcomes)
                  => Tried("cairosvg")
        /\ image_path = "svg" =>
              \A s \in {"inkscape", "cairosvg"} :
                  \E i \in DOMAIN trail :
                      trail[i].s = s /\ trail[i].o \in FailureOutcomes

\* C6: a run that reports success but leaves no output file, or an
\* undersized one, is never accepted, at any strategy of either chain.
C6_SilentFailureRejected ==
    \A i \in DOMAIN trail :
        (trail[i].s \notin LastResorts /\ trail[i].o \in SilentOutcomes)
            => ~trail[i].acc

(***************************************************************************)
(* Extraction: documents                                                   *)
(*                                                                         *)
(* A document is a sequence of tokens separated by white space.  The       *)
(* tokens are the pieces of text the patterns of extract_artifacts,        *)
(* extract_inline_svg and extract_inline_mermaid look for:                 *)
(*   open          <chat-artifact id=".." version=".." type=".." title=".."> *)
(*   badopen       <chat-artifact ...> lacking a required attribute        *)
(*   close         </chat-artifact>                                        *)
(*   svgopen       <svg ...>            svgclose   </svg>                  *)
(*   fence_svg     ```svg     fence_mermaid  ```mermaid     fence  ```     *)
(*   text          any other word                                          *)
(*   ph            the line [artifact:<id>] that extraction inserts        *)
(***************************************************************************)

\* Longest document explored.
MaxLen == 4

Tok(k, id) == [k |-> k, id |-> id]

\* The opening tag of a tagged block with its id and type attributes.
Tag(id, type) == [k |-> "open", id |-> id, type |-> type]

\* Values of the id attribute of tagged blocks: any text without a double
\* quote is allowed by id="([^"]+)".
TagIds == {"fig_1", "inline_svg_1"}

Alphabet ==
    {Tag(id, "image/svg+xml") : id \in TagIds}
        \cup {Tok(k, "-") : k \in {"badopen", "close", "svgopen", "svgclose",
                                   "fence_svg", "fence_mermaid", "fence", "text"}}

Documents == UNION {[1..n -> Alphabet] : n \in 0..MaxLen}

\* f"\n\n[artifact:{artifact_id}]\n\n"
Placeholder(id) == Tok("ph", id)

\* The first position from i on whose token is of a kind in K, 0 if none:
\* where a non-greedy [\s\S]*? stops.
FirstAt(text, i, K) ==
    IF \E j \in i..Len(text) : text[j].k \in K
      THEN CHOOSE j \in i..Len(text) :
               /\ text[j].k \in K
               /\ \A l \in i..(j - 1) : text[l].k \notin K
      ELSE 0

\* The last such position: where a greedy [\s\S]* would stop.
LastAt(text, i, K) ==
    IF \E j \in i..Len(text) : text[j].k \in K
      THEN CHOOSE j \in i..Len(text) :
               /\ text[j].k \in K
               /\ \A l \in (j + 1)..Len(text) : text[l].k \notin K
      ELSE 0

\* d.setdefault(key, value): a known key keeps its value.
DictSetDefault(d, r) ==
    IF \E i \in DOMAIN d : d[i].id = r.id THEN d ELSE Append(d, r)

\* A Python dict as the sequence of its values in insertion order.
\* d[key] = value: a known key keeps its place and takes the new value.
DictSet(d, r) ==
    IF \E i \in DOMAIN d : d[i].id = r.id
      THEN [i \in DOMAIN d |-> IF d[i].id = r.id THEN r ELSE d[i]]
      ELSE Append(d, r)

\* A dict.update that stores nothing.
DictUpdateDropped(d, other) == d

\* d.update(other)
RECURSIVE DictUpdate(_, _)
DictUpdate(d, other) ==
    IF other = <<>> THEN d
    ELSE DictUpdate(DictSet(d, Head(other)), Tail(other))

Keys(d) == {d[i].id : i \in DOMAIN d}

\* The state of one re.sub run: the text produced so far, the dict the
\* replacer fills, the ids it has given out and its counter start_id.
SubState(n) == [out |-> <<>>, arts |-> <<>>, log |-> <<>>, n |-> n]

Copy(st, toks) == [st EXCEPT !.out = @ \o toks]

(***************************************************************************)
(* extract_artifacts: the tagged blocks                                    *)
(***************************************************************************)

\* ([\s\S]*?)</chat-artifact> taken greedily
TagEndGreedy(text, i) == LastAt(text, i + 1, {"close"})

\* ([\s\S]*?)</chat-artifact>: the first closing tag after the opening one
TagEnd(text, i) == FirstAt(text, i + 1, {"close"})

\* artifact_replacer(match): tag is the opening tag matched, body group 5.
artifact_replacer(st, tag, body) ==
    [st EXCEPT
       !.out = Append(@, Placeholder(tag.id)),
       !.arts = DictSet(@, [id |-> tag.id, type |-> tag.type,
                            content |-> body, repaired |-> FALSE]),
       !.log = Append(@, [id |-> tag.id, form |-> "tagged"])]

\* re.sub(pattern, artifact_replacer, markdown_text)
RECURSIVE TaggedSub(_, _, _)
TaggedSub(text, i, st) ==
    IF i > Len(text) THEN st
    ELSE LET j == IF text[i].k = "open" THEN TagEnd(text, i) ELSE 0 IN
         IF j # 0
           THEN TaggedSub(text, j + 1,
                          artifact_replacer(st, text[i],
                                            SubSeq(text, i + 1, j - 1)))
           ELSE TaggedSub(text, i + 1, Copy(st, <<text[i]>>))

(***************************************************************************)
(* extract_inline_svg                                                      *)
(***************************************************************************)

\* Every token that begins with ``` ends a ([\s\S]*?)``` span.
FenceKinds == {"fence", "fence_svg", "fence_mermaid"}

\* What is left of the token that ended a span once its ``` is consumed:
\* the word svg or mermaid, which then follows the placeholder directly.
Leftover(tok) == IF tok.k = "fence" THEN <<>> ELSE <<Tok("rest", "-")>>

\* code_content.startswith('<svg') and code_content.endswith('</svg>')
IsCompleteSvg(content) ==
    /\ Len(content) >= 2
    /\ content[1].k = "svgopen"
    /\ content[Len(content)].k = "svgclose"

\* f"inline_svg_{start_id}"
SvgId(n) == "inline_svg_" \o ToString(n)

\* f"inline_mermaid_{start_id}"
MermaidId(n) == "inline_mermaid_" \o ToString(n)

\* svg_replacer(match, is_codeblock): whole is match.group(0), content is
\* match.group(1), rest what follows the match inside its last token.
svg_replacer(st, whole, content, is_codeblock, rest) ==
    IF is_codeblock /\ ~IsCompleteSvg(content)
      THEN Copy(st, whole)
    ELSE IF content = <<>> \/ content[1].k # "svgopen"
      THEN Copy(st, whole)
    ELSE [st EXCEPT
            !.out = @ \o <<Placeholder(SvgId(st.n))>> \o rest,
            !.arts = DictSet(@, [id |-> SvgId(st.n), type |-> "image/svg+xml",
                                 content |-> content, repaired |-> TRUE]),
            !.log = Append(@, [id |-> SvgId(st.n), form |-> "svg"]),
            !.n = @ + 1]

\* re.sub(codeblock_pattern, lambda m: svg_replacer(m, True), markdown_text)
RECURSIVE CodeblockSub(_, _, _)
CodeblockSub(text, i, st) ==
    IF i > Len(text) THEN st
    ELSE LET j == IF text[i].k = "fence_svg"
                    THEN FirstAt(text, i + 1, FenceKinds) ELSE 0 IN
         IF j # 0
           THEN CodeblockSub(text, j + 1,
                    svg_replacer(st, SubSeq(text, i, j),
                                 SubSeq(text, i + 1, j - 1), TRUE,
                                 Leftover(text[j])))
           ELSE CodeblockSub(text, i + 1, Copy(st, <<text[i]>>))

\* re.sub(inline_pattern, lambda m: svg_replacer(m, False), processed_text)
RECURSIVE InlineSub(_, _, _)
InlineSub(text, i, st) ==
    IF i > Len(text) THEN st
    ELSE LET j == IF text[i].k = "svgopen"
                    THEN FirstAt(text, i + 1, {"svgclose"}) ELSE 0 IN
         IF j # 0
           THEN InlineSub(text, j + 1,
                    svg_replacer(st, SubSeq(text, i, j), SubSeq(text, i, j),
                                 FALSE, <<>>))
           ELSE InlineSub(text, i + 1, Copy(st, <<text[i]>>))

\* The code blocks first, the inline markup next, on one shared counter.
extract_inline_svg(text, start_id) ==
    LET blocks == CodeblockSub(text, 1, SubState(start_id))
    IN  InlineSub(blocks.out, 1, [blocks EXCEPT !.out = <<>>])

(***************************************************************************)
(* extract_inline_mermaid                                                  *)
(***************************************************************************)

mermaid_replacer(st, whole, content, rest) ==
    IF content = <<>>
      THEN Copy(st, whole)
      ELSE [st EXCEPT
              !.out = @ \o <<Placeholder(MermaidId(st.n))>> \o rest,
              !.arts = DictSet(@, [id |-> MermaidId(st.n),
                                   type |-> "application/vnd.chat.mermaid",
                                   content |-> content, repaired |-> FALSE]),
              !.log = Append(@, [id |-> MermaidId(st.n), form |-> "mermaid"]),
              !.n = @ + 1]

\* re.sub(pattern, mermaid_replacer, markdown_text)
RECURSIVE MermaidSub(_, _, _)
MermaidSub(text, i, st) ==
    IF i > Len(text) THEN st
    ELSE LET j == IF text[i].k = "fence_mermaid"
                    THEN FirstAt(text, i + 1, FenceKinds) ELSE 0 IN
         IF j # 0
           THEN MermaidSub(text, j + 1,
                    mermaid_replacer(st, SubSeq(text, i, j),
                                     SubSeq(text, i + 1, j - 1),
                                     Leftover(text[j])))
           ELSE MermaidSub(text, i + 1, Copy(st, <<text[i]>>))

extract_inline_mermaid(text, start_id) ==
    MermaidSub(text, 1, SubState(start_id))

(***************************************************************************)
(* extract_artifacts                                                       *)
(***************************************************************************)

\* preprocess_latex_math reads the text character by character.  For its
\* two patterns the text is the stream of its tokens with the white space
\* that separates them: the token $$ is two adjacent $ characters, the token
\* $ is one.
Dollar == Tok("dollar", "-")
Ws == Tok("ws", "-")

RECURSIVE Items(_)
Items(text) ==
    IF text = <<>> THEN <<>>
    ELSE LET t == Head(text)
             first == IF t.k = "ddollar" THEN <<Dollar, Dollar>> ELSE <<t>>
         IN  IF Len(text) = 1 THEN first
             ELSE first \o <<Ws>> \o Items(Tail(text))

\* The tokens of a stream: white space separates, two adjacent $ are a $$.
RECURSIVE Tokens(_)
Tokens(items) ==
    IF items = <<>> THEN <<>>
    ELSE IF Head(items) = Ws THEN Tokens(Tail(items))
    ELSE IF Head(items) = Dollar /\ Len(items) >= 2 /\ items[2] = Dollar
      THEN <<Tok("ddollar", "-")>> \o Tokens(Tail(Tail(items)))
    ELSE <<Head(items)>> \o Tokens(Tail(items))

\* return f"${math_content}$"
process_math(math_content) == <<Dollar>> \o math_content \o <<Dollar>>

\* return f"$${math_content}$$"
process_display_math(math_content) ==
    <<Dollar, Dollar>> \o math_content \o <<Dollar, Dollar>>

\* re.sub(r'\$([^$]+?)\$', process_math, markdown_text)
RECURSIVE InlineMathSub(_, _, _)
InlineMathSub(items, i, out) ==
    IF i > Len(items) THEN out
    ELSE LET j == IF items[i] = Dollar
                    THEN FirstAt(items, i + 1, {"dollar"}) ELSE 0 IN
         IF j > i + 1
           THEN InlineMathSub(items, j + 1,
                              out \o process_math(SubSeq(items, i + 1, j - 1)))
           ELSE InlineMathSub(items, i + 1, Append(out, items[i]))

\* Where the closing $$ of a display span opened at i begins, 0 if none: the
\* first pair of $ that leaves at least one character for ([\s\S]+?).
DisplayEnd(items, i) ==
    LET ends == {j \in (i + 3)..(Len(items) - 1) :
                     items[j] = Dollar /\ items[j + 1] = Dollar}
    IN  IF ends = {} THEN 0
        ELSE CHOOSE j \in ends : \A l \in ends : j <= l

\* re.sub(r'\$\$([\s\S]+?)\$\$', process_display_math, processed_text)
RECURSIVE DisplayMathSub(_, _, _)
DisplayMathSub(items, i, out) ==
    IF i > Len(items) THEN out
    ELSE LET j == IF /\ items[i] = Dollar
                     /\ i < Len(items)
                     /\ items[i + 1] = Dollar
                    THEN DisplayEnd(items, i) ELSE 0 IN
         IF j # 0
           THEN DisplayMathSub(items, j + 2,
                    out \o process_display_math(SubSeq(items, i + 2, j - 1)))
           ELSE DisplayMathSub(items, i + 1, Append(out, items[i]))

preprocess_latex_math(text) ==
    Tokens(DisplayMathSub(InlineMathSub(Items(text), 1, <<>>), 1, <<>>))

extract_artifacts(text) ==
    LET tagged == TaggedSub(text, 1, SubState(0))
        svg == extract_inline_svg(tagged.out, Len(tagged.arts))
        arts1 == DictUpdate(tagged.arts, svg.arts)
        mermaid == extract_inline_mermaid(svg.out, Len(arts1))
        arts2 == DictUpdate(arts1, mermaid.arts)
    IN  [text |-> preprocess_latex_math(mermaid.out),
         artifacts |-> arts2,
         log |-> tagged.log \o svg.log \o mermaid.log]

\* processed_markdown, artifacts = extract_artifacts(markdown_text)
Extract ==
    /\ phase = "input"
    /\ LET r == extract_artifacts(markdown_text) IN
         /\ processed_text' = r.text
         /\ artifacts' = r.artifacts
         /\ issued' = r.log
    /\ phase' = "extracted"
    /\ UNCHANGED markdown_text
    /\ UNCHANGED outsideExtract

\* Any document of the alphabet, up to MaxLen tokens; nothing is rendering.
ExtractInit ==
    /\ markdown_text \in Documents
    /\ processed_text = <<>>
    /\ artifacts = <<>>
    /\ issued = <<>>
    /\ phase = "input"
    /\ artType = "-"
    /\ mermaid_content = "-"
    /\ MERMAID_AVAILABLE = FALSE
    /\ pc = "idle"
    /\ conversion_success = FALSE
    /\ png = "absent"
    /\ svgfile = "absent"
    /\ image_path = "none"
    /\ raised = FALSE
    /\ trail = <<>>
    /\ result_lines = <<>>
    /\ handed = <<>>
    /\ diagram = <<>>
    /\ nodes = <<>>
    /\ edges = <<>>
    /\ dot = <<>>
    /\ gpc = "idle"
    /\ cpc = "idle"
    /\ temp_dir = "absent"
    /\ queue = <<>>
    /\ typeset = 0
    /\ faults = {}
    /\ outcome = "idle"
    /\ svg_code = <<>>
    /\ fixed = <<>>
    /\ runs = 0

ExtractNext == Extract

SpecExtract == ExtractInit /\ [][ExtractNext]_vars

(***************************************************************************)
(* Properties of extraction                                                *)
(***************************************************************************)

\* The well-formed tagged blocks of a document from position i on, as
\* <<first, last>> positions in document order: an opening tag with all
\* four attributes up to the first closing tag after it.
RECURSIVE TaggedBlocks(_, _)
TaggedBlocks(doc, i) ==
    IF i > Len(doc) THEN <<>>
    ELSE LET j == IF doc[i].k = "open"
                    THEN FirstAt(doc, i + 1, {"close"}) ELSE 0 IN
         IF j # 0 THEN <<(<<i, j>>)>> \o TaggedBlocks(doc, j + 1)
         ELSE TaggedBlocks(doc, i + 1)

InTaggedBlock(doc, p) ==
    \E b \in DOMAIN TaggedBlocks(doc, 1) :
        TaggedBlocks(doc, 1)[b][1] <= p /\ p <= TaggedBlocks(doc, 1)[b][2]

\* The id attributes of the well-formed tagged blocks, in document order.
BlockIds(doc) ==
    [b \in DOMAIN TaggedBlocks(doc, 1) |-> doc[TaggedBlocks(doc, 1)[b][1]].id]

\* Outside its tagged blocks the document holds no piece of a vector block
\* or of a fenced block.
NoOtherForm(doc) ==
    \A p \in DOMAIN doc :
        InTaggedBlock(doc, p)
            \/ doc[p].k \notin {"svgopen", "svgclose"} \cup FenceKinds

Distinct(seq) == \A i, j \in DOMAIN seq : i # j => seq[i] # seq[j]

\* The ids on the placeholder lines of a text, in order.
PlaceholderIds(text) ==
    LET IsPh(t) == t.k = "ph"
        phs == SelectSeq(text, IsPh)
    IN  [i \in DOMAIN phs |-> phs[i].id]

RecordIds == [i \in DOMAIN artifacts |-> artifacts[i].id]

Occurs(sub, text) ==
    \E s \in 1..(Len(text) - Len(sub) + 1) :
        SubSeq(text, s, s + Len(sub) - 1) = sub

\* C7 as stated: a document of N well-formed tagged blocks and no other
\* artifact form yields N placeholder lines and N records, the ids
\* verbatim and in document order.
C7_TaggedBlocksAsStated ==
    (phase = "extracted" /\ NoOtherForm(markdown_text))
        => /\ PlaceholderIds(processed_text) = BlockIds(markdown_text)
           /\ RecordIds = BlockIds(markdown_text)

\* C7 amended: the same for a document whose N well-formed tagged blocks
\* carry pairwise distinct ids.
C7_DistinctTaggedBlocks ==
    (phase = "extracted" /\ NoOtherForm(markdown_text)
                         /\ Distinct(BlockIds(markdown_text)))
        => /\ PlaceholderIds(processed_text) = BlockIds(markdown_text)
           /\ RecordIds = BlockIds(markdown_text)

\* C7 witness: two tagged blocks with different ids have been extracted.
C7_Witness ==
    /\ phase = "extracted" /\ NoOtherForm(markdown_text)
    /\ Len(BlockIds(markdown_text)) = 2
    /\ Distinct(BlockIds(markdown_text))
    /\ Len(artifacts) = 2
    /\ PlaceholderIds(processed_text) = <<"inline_svg_1", "fig_1">>

\* C8: every placeholder line of the sanitized text carries an id that is
\* a key of the artifact map returned with it.
C8_PlaceholdersResolve ==
    phase = "extracted" =>
        \A i \in DOMAIN processed_text :
            processed_text[i].k = "ph" => processed_text[i].id \in Keys(artifacts)

\* C8 witness: the text holds the placeholder of a tagged block and the
\* placeholder of a block whose id was generated.
C8_Witness ==
    /\ phase = "extracted"
    /\ \E i, j \in DOMAIN processed_text :
          /\ processed_text[i] = Placeholder("fig_1")
          /\ processed_text[j] = Placeholder(SvgId(1))
    /\ \E i \in DOMAIN issued : issued[i].form = "svg"

\* C9: an id generated for a vector or diagram block differs from every
\* other generated id and from the id of every tagged block.
C9_GeneratedIdsUnique ==
    phase = "extracted" =>
        \A i, j \in DOMAIN issued :
            (i # j /\ issued[i].form # "tagged") => issued[i].id # issued[j].id

\* The tagged blocks lacking a required attribute, as <<first, last>>
\* positions: such an opening tag outside every well-formed block, up to the
\* first closing tag after it, with no further opening tag in between.
MalformedBlocks(doc) ==
    {<<i, j>> \in (DOMAIN doc) \X (DOMAIN doc) :
        /\ doc[i].k = "badopen"
        /\ ~InTaggedBlock(doc, i)
        /\ j = FirstAt(doc, i + 1, {"close"})
        /\ \A p \in (i + 1)..(j - 1) : doc[p].k \notin {"open", "badopen"}}

\* C10: a tagged block lacking a required attribute is left untouched.  In
\* a document that is plain text around one such block, the block appears
\* unchanged, body included, in the sanitized text and no artifact record
\* is made.
C10_MalformedBlockUntouched ==
    phase = "extracted" =>
        \A b \in MalformedBlocks(markdown_text) :
            (\A p \in DOMAIN markdown_text :
                 (p < b[1] \/ p > b[2]) => markdown_text[p].k = "text")
                => /\ Occurs(SubSeq(markdown_text, b[1], b[2]), processed_text)
                   /\ artifacts = <<>>

\* The document ```mermaid <svg ..> </svg> ```: vector markup as the body
\* of a fenced diagram block.
SvgInsideDiagram ==
    <<Tok("fence_mermaid", "-"), Tok("svgopen", "-"), Tok("svgclose", "-"),
      Tok("fence", "-")>>

\* C21: vector markup inside the body of a fenced diagram block is not
\* extracted as a vector artifact; the block yields one diagram artifact
\* whose content is the body as written.
C21_DiagramBodyIntact ==
    (phase = "extracted" /\ markdown_text = SvgInsideDiagram)
        => /\ Len(artifacts) = 1
           /\ artifacts[1].type = "application/vnd.chat.mermaid"
           /\ artifacts[1].content = SubSeq(SvgInsideDiagram, 2, 3)

(***************************************************************************)
(* replace_artifacts_in_markdown                                           *)
(*                                                                         *)
(* Here every token of the text stands on a line of its own.  Further      *)
(* tokens:                                                                 *)
(*   lit           a line [artifact:<id>] written in the document itself   *)
(*   dollar, ddollar   the math delimiters $ and $$                        *)
(*   a token with the field pad is that text between blanks                *)
(***************************************************************************)

\* Longest document explored with resolution.
MaxTokens == 4

\* The line with blanks before and after it.
Padded(tok) == [k |-> tok.k, id |-> tok.id, pad |-> TRUE]

ResolveAlphabet ==
    {Tag("fig_1", "image/svg+xml"), Tag("fig_1", "text/html"),
     Tag("fig_2", "text/html")}
        \cup {Tok(k, "-") : k \in {"close", "svgopen", "svgclose",
                                   "fence_mermaid", "fence", "text",
                                   "dollar", "ddollar"}}
        \cup {Tok("lit", "zz"), Padded(Tok("lit", "zz")),
              Padded(Tok("text", "-"))}

ResolveDocuments == UNION {[1..n -> ResolveAlphabet] : n \in 0..MaxTokens}

Blank == Tok("blank", "-")

\* markdown_content.split('\n'): a token is one line, the placeholder that
\* extraction inserted is "\n\n[artifact:id]\n\n", and what was left of a
\* closing fence stands on the last of these lines.
RECURSIVE split(_)
split(text) ==
    IF text = <<>> THEN <<>>
    ELSE LET t == Head(text)
             glued == Len(text) >= 2 /\ text[2].k = "rest"
         IN  (IF t.k = "ph"
                THEN <<Blank, Blank, Tok("lit", t.id), Blank>>
                         \o (IF glued THEN <<>> ELSE <<Blank>>)
                ELSE <<t>>) \o split(Tail(text))

\* lines[i].strip()
strip(line) == IF "pad" \in DOMAIN line THEN Tok(line.k, line.id) ELSE line

\* line.startswith('[artifact:') and line.endswith(']')
IsPlaceholderLine(line) == line.k = "lit"

\* artifacts[artifact_id]
Lookup(d, id) == d[CHOOSE i \in DOMAIN d : d[i].id = id]

\* The branch a placeholder line with a known id takes.
Dispatch(artifact) ==
    CASE artifact.type = "image/svg+xml" -> "process_svg_artifact"
      [] artifact.type = "application/vnd.chat.mermaid" -> "process_mermaid_artifact"
      [] OTHER -> "unsupported"

\* What one pass of the while loop appends to result_lines: the reference
\* a rendering function returns ("ref"), the note about an unsupported
\* type, the stripped line for an unknown id, lines[i] otherwise.
Resolved(raw, arts) ==
    LET line == strip(raw) IN
    IF IsPlaceholderLine(line)
      THEN IF line.id \in Keys(arts)
             THEN IF Dispatch(Lookup(arts, line.id)) = "unsupported"
                    THEN Tok("unsupported", line.id)
                    ELSE Tok("ref", line.id)
             ELSE line
      ELSE raw

\* The artifacts handed to process_svg_artifact / process_mermaid_artifact
\* while the lines are walked, in order.
RECURSIVE Handed(_, _)
Handed(lines, arts) ==
    IF lines = <<>> THEN <<>>
    ELSE LET line == strip(Head(lines))
             known == IsPlaceholderLine(line) /\ line.id \in Keys(arts)
         IN  (IF known /\ Dispatch(Lookup(arts, line.id)) # "unsupported"
                THEN <<[fn |-> Dispatch(Lookup(arts, line.id)),
                        artifact |-> Lookup(arts, line.id)]>>
                ELSE <<>>) \o Handed(Tail(lines), arts)

replace_artifacts_in_markdown(text, arts) ==
    [i \in DOMAIN split(text) |-> Resolved(split(text)[i], arts)]

\* processed_markdown = replace_artifacts_in_markdown(processed_markdown,
\*                                                    artifacts, temp_dir)
Resolve ==
    /\ phase = "extracted"
    /\ result_lines' = replace_artifacts_in_markdown(processed_text, artifacts)
    /\ handed' = Handed(split(processed_text), artifacts)
    /\ phase' = "resolved"
    /\ UNCHANGED <<markdown_text, processed_text, artifacts, issued>>
    /\ UNCHANGED outsideResolve

\* Any document of the alphabet above, up to MaxTokens lines.
ResolveInit ==
    /\ markdown_text \in ResolveDocuments
    /\ processed_text = <<>>
    /\ artifacts = <<>>
    /\ issued = <<>>
    /\ phase = "input"
    /\ result_lines = <<>>
    /\ handed = <<>>
    /\ diagram = <<>>
    /\ nodes = <<>>
    /\ edges = <<>>
    /\ dot = <<>>
    /\ gpc = "idle"
    /\ cpc = "idle"
    /\ temp_dir = "absent"
    /\ queue = <<>>
    /\ typeset = 0
    /\ faults = {}
    /\ outcome = "idle"
    /\ svg_code = <<>>
    /\ fixed = <<>>
    /\ runs = 0
    /\ artType = "-"
    /\ mermaid_content = "-"
    /\ MERMAID_AVAILABLE = FALSE
    /\ pc = "idle"
    /\ conversion_success = FALSE
    /\ png = "absent"
    /\ svgfile = "absent"
    /\ image_path = "none"
    /\ raised = FALSE
    /\ trail = <<>>

ResolveNext == Extract \/ Resolve

SpecResolve == ResolveInit /\ [][ResolveNext]_vars

(***************************************************************************)
(* Properties of resolution                                                *)
(***************************************************************************)

\* The lines replace_artifacts_in_markdown walked.
InputLines == split(processed_text)

\* Line i has placeholder form and its id is not a key of the artifact map.
UnknownPlaceholder(i) ==
    /\ IsPlaceholderLine(strip(InputLines[i]))
    /\ strip(InputLines[i]).id \notin Keys(artifacts)

\* C11: a line of placeholder form whose id is absent from the artifact map
\* is emitted exactly as it was in the input, leading and trailing white
\* space included.
C11_UnknownPlaceholderKept ==
    phase = "resolved" =>
        \A i \in DOMAIN InputLines :
            UnknownPlaceholder(i) => result_lines[i] = InputLines[i]

\* C12: when no tagged block, fenced diagram block or vector block is
\* recognized in a document, extract_artifacts returns an empty artifact map
\* and the input text, math spans included, and
\* replace_artifacts_in_markdown returns that text, every line unchanged
\* and in the same order.
C12_NoArtifactPassThrough ==
    (phase = "resolved" /\ issued = <<>>)
        => /\ artifacts = <<>>
           /\ processed_text = markdown_text
           /\ result_lines = markdown_text

\* C18: every artifact handed to process_svg_artifact, whichever form of
\* block it came from, has been through fix_svg_errors before.
C18_RepairedBeforeRendering ==
    phase = "resolved" =>
        \A i \in DOMAIN handed :
            handed[i].fn = "process_svg_artifact"
                => handed[i].artifact.repaired

\* The well-formed tagged blocks of the document.
Blocks == TaggedBlocks(markdown_text, 1)

\* Block b is the last of two or more tagged blocks with its id.
LaterDuplicate(b) ==
    /\ \E a \in 1..(b - 1) : BlockIds(markdown_text)[a] = BlockIds(markdown_text)[b]
    /\ \A c \in (b + 1)..Len(Blocks) :
          BlockIds(markdown_text)[c] # BlockIds(markdown_text)[b]

\* The record artifact_replacer makes of block b.
BlockRecord(b) ==
    [id |-> markdown_text[Blocks[b][1]].id,
     type |-> markdown_text[Blocks[b][1]].type,
     content |-> SubSeq(markdown_text, Blocks[b][1] + 1, Blocks[b][2] - 1),
     repaired |-> FALSE]

\* C30: when two tagged blocks carry the same id, the artifact map holds
\* one record for the id, that of the later block; each of the blocks has
\* its placeholder; and every one of these placeholders is resolved from
\* the later block's record.
C30_LaterDuplicateWins ==
    phase = "resolved" =>
        \A b \in DOMAIN Blocks :
            LaterDuplicate(b) =>
                LET r == BlockRecord(b) IN
                /\ \A i \in DOMAIN artifacts :
                      artifacts[i].id = r.id => artifacts[i] = r
                /\ Cardinality({i \in DOMAIN artifacts :
                                    artifacts[i].id = r.id}) = 1
                /\ Cardinality({i \in DOMAIN processed_text :
                                    processed_text[i] = Placeholder(r.id)})
                       = Cardinality({a \in DOMAIN Blocks :
                                        BlockIds(markdown_text)[a] = r.id})
                /\ \A i \in DOMAIN InputLines :
                      strip(InputLines[i]) = Tok("lit", r.id)
                          => result_lines[i]
                               = IF Dispatch(r) = "unsupported"
                                 THEN Tok("unsupported", r.id)
                                 ELSE Tok("ref", r.id)
                /\ \A i \in DOMAIN handed :
                      handed[i].artifact.id = r.id
                          => handed[i] = [fn |-> Dispatch(r), artifact |-> r]

\* C30 witness: a block of an unsupported type and a vector block share the
\* id fig_1; both placeholders have become references and the vector
\* record went to process_svg_artifact twice.
C30_Witness ==
    /\ phase = "resolved"
    /\ markdown_text = <<Tag("fig_1", "text/html"), Tok("close", "-"),
                         Tag("fig_1", "image/svg+xml"), Tok("close", "-")>>
    /\ Len(artifacts) = 1
    /\ artifacts[1].type = "image/svg+xml"
    /\ Cardinality({i \in DOMAIN result_lines :
                        result_lines[i] = Tok("ref", "fig_1")}) = 2
    /\ Len(handed) = 2

(***************************************************************************)
(* process_mermaid_artifact, method 2: from the diagram text to the graph  *)
(*                                                                         *)
(* A diagram is its first line and its body lines.  A body line is a node  *)
(* line (one node term), an edge line (two node terms around an arrow), a  *)
(* style directive or an empty line.  A node term is an id, followed or    *)
(* not by a label in brackets:                                             *)
(*   rect A[l]   round A([l])   circle A((l))   rhombus A{l}               *)
(*   hexagon A{{l}}   none A                                               *)
(* The forms of an edge line S ? T:                                        *)
(*   spaced      S --> T            tight       S-->T                      *)
(*   bar_tight   S -->|yes| T       bar_spaced  S --> |yes| T              *)
(*   text        S -- yes --> T     leading     " --> S --> T"             *)
(*   chain       S --> B --> T                                             *)
(***************************************************************************)

\* Most body lines of a diagram explored.
MaxBody == 2

Term(id, br, label) == [id |-> id, br |-> br, label |-> label]
Bare(id) == Term(id, "none", "")

NodeLine(term) == [t |-> "node", term |-> term]
EdgeLine(src, form, tgt) == [t |-> "edge", src |-> src, form |-> form, tgt |-> tgt]
StyleLine(id, fill) == [t |-> "style", id |-> id, fill |-> fill]
BlankLine == [t |-> "blank"]

\* The label written between the bars, or between the dashes, of an edge.
EdgeLabel == "yes"

PlainLabels == {"Start", "Check", "Wait", "End", "Run", "Go"}
Quote(l) == "\"" \o l \o "\""

BodyLines ==
    {NodeLine(t) : t \in {Term("A", "rect", "Start"), Term("B", "rhombus", "Check"),
                          Term("C", "hexagon", "Wait"), Term("C", "circle", "End"),
                          Term("C", "round", "Run"), Term("B", "rect", Quote("Go")),
                          Bare("X")}}
      \cup {BlankLine}
      \cup {EdgeLine(src, form, tgt) :
               src \in {Bare("A"), Term("A", "rect", "Start")},
               form \in {"spaced", "tight"},
               tgt \in {Bare("B"), Term("B", "rhombus", "Check"), Bare("X")}}
      \cup {EdgeLine(Bare("A"), form, Bare("X")) :
               form \in {"bar_tight", "bar_spaced", "text", "leading", "chain"}}
      \cup {StyleLine("A", "#f9f"), StyleLine("A", "none"), StyleLine("X", "#f9f")}

Heads == {"flowchart LR", "flowchart TD"}

Diagrams ==
    [head : Heads, body : UNION {[1..n -> BodyLines] : n \in 0..MaxBody}]

\* A pattern that does not match.
NoMatch == ""

\* node_label.strip('"\'')
StripQuotes(label) ==
    IF \E u \in PlainLabels : label = Quote(u)
      THEN CHOOSE u \in PlainLabels : label = Quote(u)
      ELSE label

\* " --> " in line, for the line as it stands and for line.strip() alike
ContainsArrow(line) ==
    /\ line.t = "edge"
    /\ line.form \in {"spaced", "bar_spaced", "text", "leading", "chain"}

\* "style " in line
ContainsStyle(line) == line.t = "style"

\* The node term a line that holds no " --> " begins with.
LeadingTerm(line) == IF line.t = "node" THEN line.term ELSE line.src

\* rect_node_regex = r'^\s*([A-Za-z0-9_]+)\s*\[\s*([^\]]+)\s*\]'
rect_match(term) == IF term.br = "rect" THEN term.label ELSE NoMatch

\* rounded_rect_regex = r'^\s*([A-Za-z0-9_]+)\s*\(\s*\[\s*([^\]]+)\s*\]\s*\)'
rounded_match(term) == IF term.br = "round" THEN term.label ELSE NoMatch

\* circle_node_regex = r'^\s*([A-Za-z0-9_]+)\s*\(\(\s*([^\)]+)\s*\)\)'
circle_match(term) == IF term.br = "circle" THEN term.label ELSE NoMatch

\* rhombus_node_regex = r'^\s*([A-Za-z0-9_]+)\s*\{\s*([^\}]+)\s*\}': in
\* A{{l}} it matches A{ {l }, the label taking the second brace.
rhombus_match(term) ==
    CASE term.br = "rhombus" -> term.label
      [] term.br = "hexagon" -> "{" \o term.label
      [] OTHER -> NoMatch

\* hexagon_node_regex = r'^\s*([A-Za-z0-9_]+)\s*\{\{\s*([^\}]+)\s*\}\}'
hexagon_match(term) == IF term.br = "hexagon" THEN term.label ELSE NoMatch

\* nodes[node_id] = label; node_styles[node_id] = {shape, style, fillcolor}
Node(id, label, shape, style, fillcolor) ==
    [id |-> id, label |-> label, shape |-> shape, style |-> style,
     fillcolor |-> fillcolor]

\* nodes[id] = id; node_styles[id] = {'shape': 'plaintext', 'style': '',
\*                                    'fillcolor': 'white'}
PlainNode(id) == Node(id, id, "plaintext", "", "white")

\* One pass of the first loop over lines[1:].
NodeStep(ns, line) ==
    IF line.t = "blank" \/ ContainsArrow(line) \/ ContainsStyle(line) THEN ns
    ELSE LET term == LeadingTerm(line) IN
         IF rect_match(term) # NoMatch
           THEN DictSet(ns, Node(term.id, StripQuotes(rect_match(term)),
                                 "box", "filled,rounded", "lightblue"))
         ELSE IF rounded_match(term) # NoMatch
           THEN DictSet(ns, Node(term.id, StripQuotes(rounded_match(term)),
                                 "box", "filled,rounded", "lightgreen"))
         ELSE IF circle_match(term) # NoMatch
           THEN DictSet(ns, Node(term.id, StripQuotes(circle_match(term)),
                                 "circle", "filled", "lightblue"))
         ELSE IF rhombus_match(term) # NoMatch
           THEN DictSet(ns, Node(term.id, StripQuotes(rhombus_match(term)),
                                 "diamond", "filled", "lightyellow"))
         ELSE IF hexagon_match(term) # NoMatch
           THEN DictSet(ns, Node(term.id, StripQuotes(hexagon_match(term)),
                                 "hexagon", "filled", "lightpink"))
         ELSE IF term.id \in Keys(ns) THEN ns
         ELSE Append(ns, PlainNode(term.id))

\* One side of an arrow as the endpoint patterns see it: the identifier it
\* begins with (r'^([A-Za-z0-9_]+)') and what its first [..] holds
\* (r'\[([^\]]+)\]').
Part(id, content) == [id |-> id, content |-> content]
PartOf(term) ==
    Part(term.id, IF term.br \in {"rect", "round"} THEN term.label ELSE NoMatch)

\* line.split(" --> "): of the line as it stands, or of line.strip() when
\* stripped.  Only a line that begins with the arrow differs.
SplitArrow(line, stripped) ==
    CASE line.form = "spaced" -> <<PartOf(line.src), PartOf(line.tgt)>>
      [] line.form = "text" -> <<PartOf(line.src), PartOf(line.tgt)>>
      [] line.form = "chain" ->
            <<PartOf(line.src), PartOf(Bare("B")), PartOf(line.tgt)>>
      [] line.form = "bar_spaced" ->
            <<PartOf(line.src), Part(NoMatch, PartOf(line.tgt).content)>>
      [] line.form = "leading" ->
            IF stripped
              THEN <<Part(NoMatch, PartOf(line.src).content), PartOf(line.tgt)>>
              ELSE <<Part(NoMatch, NoMatch), PartOf(line.src), PartOf(line.tgt)>>

\* An endpoint pass that adds nothing.
DeclaredOnly(ns, part) == ns

\* if src_id not in nodes: a box with the bracketed content when there is
\* one, a plain node otherwise
SynthesizeEndpoint(ns, part) ==
    IF part.id = NoMatch \/ part.id \in Keys(ns) THEN ns
    ELSE IF part.content # NoMatch
      THEN Append(ns, Node(part.id, StripQuotes(part.content),
                           "box", "filled,rounded", "lightblue"))
    ELSE Append(ns, PlainNode(part.id))

\* One pass of the second loop: parts[0], then parts[1].
SynthesisStep(ns, line) ==
    IF ~ContainsArrow(line) THEN ns
    ELSE LET parts == SplitArrow(line, FALSE) IN
         SynthesizeEndpoint(SynthesizeEndpoint(ns, parts[1]), parts[2])

\* re.search(r'\|([^|]+)\|', line)
label_match(line) ==
    IF line.form \in {"bar_tight", "bar_spaced"} THEN EdgeLabel ELSE NoMatch

\* edges.append((source_id, target_id)) / (source_id, target_id, label)
Edge(source, target, label) ==
    [source |-> source, target |-> target, label |-> label]

\* One pass of the third loop: no edge unless both sides begin with an id.
EdgeStep(es, line) ==
    IF ~ContainsArrow(line) THEN es
    ELSE LET parts == SplitArrow(line, TRUE) IN
         IF parts[1].id = NoMatch \/ parts[2].id = NoMatch THEN es
         ELSE Append(es, Edge(parts[1].id, parts[2].id, label_match(line)))

\* re.search(r'fill:(#[0-9a-fA-F]+)', style_str), 'lightblue' without it
fill_match(line) == IF line.fill = "none" THEN "lightblue" ELSE line.fill

\* One pass of the fourth loop: a directive for a known id keeps the shape
\* and sets style and fill color.
StyleStep(ns, line) ==
    IF line.t # "style" THEN ns
    ELSE [i \in DOMAIN ns |->
             IF ns[i].id = line.id
               THEN Node(ns[i].id, ns[i].label, ns[i].shape,
                         "filled,rounded", fill_match(line))
               ELSE ns[i]]

\* The body of the loop of one pass.
Step(pass, acc, line) ==
    CASE pass = "node" -> NodeStep(acc, line)
      [] pass = "synthesis" -> SynthesisStep(acc, line)
      [] pass = "edge" -> EdgeStep(acc, line)
      [] pass = "style" -> StyleStep(acc, line)

\* for line in lines[1:]: ...
RECURSIVE Loop(_, _, _)
Loop(pass, acc, lines) ==
    IF lines = <<>> THEN acc
    ELSE Loop(pass, Step(pass, acc, Head(lines)), Tail(lines))

ParsedNodes(body) ==
    Loop("style", Loop("synthesis", Loop("node", <<>>, body), body), body)

ParsedEdges(body) == Loop("edge", <<>>, body)

\* "LR" in first_line ... elif "TD" in first_line
Direction(head) == IF head = "flowchart LR" THEN "LR" ELSE "TB"

\* lines = mermaid_content.strip().split('\n') and the four loops
ParseGraph ==
    /\ gpc = "text"
    /\ nodes' = ParsedNodes(diagram.body)
    /\ edges' = ParsedEdges(diagram.body)
    /\ gpc' = "parsed"
    /\ UNCHANGED <<diagram, dot>>
    /\ UNCHANGED outsideGraph

\* dot.node(node_id, label, **attrs) for every node, dot.edge(...) for
\* every edge
EmitGraph ==
    /\ gpc = "parsed"
    /\ dot' = [rankdir |-> Direction(diagram.head),
               node |-> nodes, edge |-> edges]
    /\ gpc' = "handed"
    /\ UNCHANGED <<diagram, nodes, edges>>
    /\ UNCHANGED outsideGraph

\* Any diagram of up to MaxBody body lines.
GraphInit ==
    /\ diagram \in Diagrams
    /\ nodes = <<>>
    /\ edges = <<>>
    /\ dot = <<>>
    /\ gpc = "text"
    /\ cpc = "idle"
    /\ temp_dir = "absent"
    /\ queue = <<>>
    /\ typeset = 0
    /\ faults = {}
    /\ outcome = "idle"
    /\ svg_code = <<>>
    /\ fixed = <<>>
    /\ runs = 0
    /\ markdown_text = <<>>
    /\ processed_text = <<>>
    /\ artifacts = <<>>
    /\ issued = <<>>
    /\ phase = "idle"
    /\ result_lines = <<>>
    /\ handed = <<>>
    /\ artType = "-"
    /\ mermaid_content = "-"
    /\ MERMAID_AVAILABLE = FALSE
    /\ pc = "idle"
    /\ conversion_success = FALSE
    /\ png = "absent"
    /\ svgfile = "absent"
    /\ image_path = "none"
    /\ raised = FALSE
    /\ trail = <<>>

GraphNext == ParseGraph \/ EmitGraph

SpecGraph == GraphInit /\ [][GraphNext]_vars

(***************************************************************************)
(* Properties of graph parsing                                             *)
(***************************************************************************)

NodeOf(id) == nodes[CHOOSE i \in DOMAIN nodes : nodes[i].id = id]

\* C13: `flowchart LR` followed by `A[Start]-->B{Check}` parses to node A
\* (label Start, rectangle), node B (label Check, rhombus) and exactly one
\* edge, from A to B, without a label.
C13_InlineEndpointsParsed ==
    (/\ gpc # "text"
     /\ diagram = [head |-> "flowchart LR",
                   body |-> <<EdgeLine(Term("A", "rect", "Start"), "tight",
                                       Term("B", "rhombus", "Check"))>>])
        => /\ Keys(nodes) = {"A", "B"}
           /\ NodeOf("A").label = "Start" /\ NodeOf("A").shape = "box"
           /\ NodeOf("B").label = "Check" /\ NodeOf("B").shape = "diamond"
           /\ edges = <<Edge("A", "B", NoMatch)>>

\* The edge lines of the diagram that hold " --> " and name id as an
\* endpoint, without a label in brackets.
ReferencedBare(id) ==
    \E i \in DOMAIN diagram.body :
        /\ ContainsArrow(diagram.body[i])
        /\ Bare(id) \in {diagram.body[i].src, diagram.body[i].tgt}

\* No node line declares id and no style directive names it.
Undeclared(id) ==
    \A i \in DOMAIN diagram.body :
        /\ diagram.body[i].t = "node" => diagram.body[i].term.id # id
        /\ diagram.body[i].t = "style" => diagram.body[i].id # id

\* C14: when an edge line references an id X that no node line declares,
\* and the endpoint carries no label in brackets, the parsed graph holds a
\* node X whose label is X and whose styling is the plain default
\* (plaintext shape, not filled).
C14_UndeclaredEndpointSynthesized ==
    (gpc # "text" /\ ReferencedBare("X") /\ Undeclared("X"))
        => /\ "X" \in Keys(nodes)
           /\ NodeOf("X").label = "X"
           /\ NodeOf("X").shape = "plaintext"
           /\ NodeOf("X").style = ""

\* C15: when the graph is handed to the renderer, the source id and the
\* target id of every recorded edge are keys of the node map.
C15_EdgeEndpointsAreNodes ==
    gpc = "handed" =>
        \A i \in DOMAIN dot.edge :
            /\ dot.edge[i].source \in Keys(dot.node)
            /\ dot.edge[i].target \in Keys(dot.node)

\* C15 witness: an edge to an id that no line declares has been handed to
\* the renderer, together with the node synthesized for it.
C15_Witness ==
    /\ gpc = "handed"
    /\ Undeclared("X")
    /\ \E i \in DOMAIN dot.edge : dot.edge[i].target = "X"
    /\ \E i \in DOMAIN dot.node : dot.node[i] = PlainNode("X")

\* C22: a node line in hexagon syntax, C{{Wait}}, is recorded with shape
\* hexagon, fill light pink and label Wait; a node line in rhombus syntax,
\* B{Check}, with shape diamond (graphviz's rhombus) and fill light yellow.
C22_ShapePairing ==
    gpc # "text" =>
        /\ diagram.body = <<NodeLine(Term("C", "hexagon", "Wait"))>>
              => nodes = <<Node("C", "Wait", "hexagon", "filled", "lightpink")>>
        /\ diagram.body = <<NodeLine(Term("B", "rhombus", "Check"))>>
              => nodes = <<Node("B", "Check", "diamond", "filled",
                                "lightyellow")>>

\* The node map as it stands when the style pass begins.
BeforeStyle == Loop("synthesis", Loop("node", <<>>, diagram.body), diagram.body)

\* The fill a node ends with when every directive naming it sets the fill
\* to the value of its fill: field and a directive without one sets nothing.
RECURSIVE FillAfter(_, _, _)
FillAfter(fill, id, lines) ==
    IF lines = <<>> THEN fill
    ELSE FillAfter(IF /\ Head(lines).t = "style"
                      /\ Head(lines).id = id
                      /\ Head(lines).fill # "none"
                   THEN Head(lines).fill ELSE fill,
                   id, Tail(lines))

\* C23: after the style pass every node has the shape it had before, and
\* its fill is the one it had before unless a directive naming it has a
\* fill: field, whose value it then takes.
C23_StylePassChangesFillOnly ==
    gpc # "text" =>
        /\ Keys(nodes) = Keys(BeforeStyle)
        /\ \A i \in DOMAIN nodes :
              /\ nodes[i].shape = BeforeStyle[i].shape
              /\ nodes[i].fillcolor = FillAfter(BeforeStyle[i].fillcolor,
                                                nodes[i].id, diagram.body)

\* C24: for every line that holds an arrow and a label between two bars,
\* `A -->|yes| X` or `A --> |yes| X`, the edge pass records an edge from
\* the line's source id to its target id with that label.
C24_BarLabelledEdgeRecorded ==
    gpc # "text" =>
        \A i \in DOMAIN diagram.body :
            (/\ diagram.body[i].t = "edge"
             /\ diagram.body[i].form \in {"bar_tight", "bar_spaced"})
                => \E j \in DOMAIN edges :
                      edges[j] = Edge(diagram.body[i].src.id,
                                      diagram.body[i].tgt.id, EdgeLabel)

(***************************************************************************)
(* fix_svg_errors: documents                                               *)
(*                                                                         *)
(* A document is <svg ..>, an optional <defs> block and a sequence of      *)
(* elements, together with the figure captions its text holds.  A line     *)
(* element is `<line x1=".." y1=".." x2=".."` followed by its further      *)
(* attributes and the closing `/>`; each of these is kept with the number  *)
(* of white-space characters that stand before it, which is what the       *)
(* patterns of the line repair depend on.  A text element is kept by what  *)
(* its content holds: a formula between `$` or not, what the formula is,   *)
(* whether it has been turned into <tspan> elements, and how many <tspan   *)
(* and </tspan> the content counts.  A rect element is kept by its y,      *)
(* width, height and fill attributes, written in that order.               *)
(***************************************************************************)

MaxElems == 2

Attr(gap, name, val) == [gap |-> gap, name |-> name, val |-> val]

\* The closing `/>` of a line element.
End(gap) == Attr(gap, "/>", "")

Line(x1, y1, x2, tail) ==
    [e |-> "line", x1 |-> x1, y1 |-> y1, x2 |-> x2, tail |-> tail]

\* The bodies: x, \frac{1}{2}, \mathbf{x}, x with <tspan> before the
\* formula ("open"), x with </tspan> after it ("close").
Text(dollar, body) ==
    [e |-> "text", dollar |-> dollar, body |-> body, translated |-> FALSE,
     opens |-> IF body = "open" THEN 1 ELSE 0,
     closes |-> IF body = "close" THEN 1 ELSE 0]

\* <rect y=".." width=".." height=".." fill=".."/>; plain tells whether
\* width and height are written as plain numbers (not as 100%).
Rect(y, width, height, plain, fill) ==
    [e |-> "rect", y |-> y, width |-> width, height |-> height,
     plain |-> plain, fill |-> fill]

\* <!-- .. -->
Comment(text) == [e |-> "comment", text |-> text]

\* What may follow x2="..": nothing, another attribute, y2 after one, two
\* or three blanks, or the repeated attributes of the two malformed shapes.
Tails(x2, y2) ==
    {<<End(0)>>, <<End(1)>>}
        \cup {<<Attr(g, "stroke", "black"), End(0)>> : g \in 1..2}
        \cup {<<Attr(g, "y2", y2), End(0)>> : g \in 1..3}
        \cup {<<Attr(1, "y1", y2), Attr(1, "x2", x2), End(0)>>,
              <<Attr(1, "x2", x2), Attr(1, "y2", y2), End(0)>>}

\* Lines from (50, 320): to x2 = 650 (horizontal) or to x2 = 50 (vertical).
LineElements ==
    UNION {{Line("50", "320", x2, t) :
                t \in Tails(x2, IF x2 = "50" THEN "20" ELSE "320")} :
           x2 \in {"650", "50"}}

\* <text>x</text>, <text>$x$</text>, <text>\frac{1}{2}</text>,
\* <text>$\frac{1}{2}$</text>, <text>$\mathbf{x}$</text>,
\* <text><tspan>$x$</text> and <text>$x$</tspan></text>
TextElements ==
    {Text(d, b) : d \in BOOLEAN, b \in {"x", "frac"}}
        \cup {Text(TRUE, b) : b \in {"bold", "open", "close"}}

\* A wide flat strip in black and in red, a black square, a black square
\* at y = 160, and a black strip whose width is written 100%.
RectElements ==
    {Rect(100, 600, 20, TRUE, "black"), Rect(100, 600, 20, TRUE, "red"),
     Rect(100, 100, 100, TRUE, "black"), Rect(160, 100, 100, TRUE, "black"),
     Rect(100, 600, 20, FALSE, "black")}

\* "fig8" stands for the caption of is_figure8, "fig9" for is_figure9.
Captions == SUBSET {"fig8", "fig9"}

SvgDocuments ==
    {[caption |-> c, defs |-> d, styles |-> 0, elems |-> es] :
        c \in Captions, d \in BOOLEAN,
        es \in UNION {[1..n -> LineElements \cup TextElements
                                   \cup RectElements] : n \in 0..MaxElems}}

(***************************************************************************)
(* fix_svg_errors, step 1: line attributes                                 *)
(***************************************************************************)

Rest(tail, n) == SubSeq(tail, n, Len(tail))

\* re.sub(r'x1=".." y1=".." x2=".." y1="(..)" x2=".."',
\*        r'x1="\1" y1="\2" x2="\3" y2="\4"', svg_code)
FixDuplicateY1(line) ==
    IF /\ Len(line.tail) >= 2
       /\ line.tail[1].name = "y1" /\ line.tail[1].gap >= 1
       /\ line.tail[2].name = "x2" /\ line.tail[2].gap >= 1
    THEN [line EXCEPT !.tail = <<Attr(1, "y2", line.tail[1].val)>>
                                   \o Rest(line.tail, 3)]
    ELSE line

\* re.sub(r'x1=".." y1=".." x2=".." x2=".." y2="(..)"',
\*        r'x1="\1" y1="\2" x2="\3" y2="\5"', svg_code)
FixDuplicateX2(line) ==
    IF /\ Len(line.tail) >= 2
       /\ line.tail[1].name = "x2" /\ line.tail[1].gap >= 1
       /\ line.tail[2].name = "y2" /\ line.tail[2].gap >= 1
    THEN [line EXCEPT !.tail = <<Attr(1, "y2", line.tail[2].val)>>
                                   \o Rest(line.tail, 3)]
    ELSE line

\* (<line\s+x1=".."\s+y1=".."\s+x2=".."\s+)(?!y2=)([^>]*?>) replaced by
\* group 1, y2="value", a blank and the last group.  \s+ takes all the
\* white space after x2 unless y2= follows it; then it gives one character
\* back, the lookahead sees that character, and the pattern matches
\* although y2 is there.  With no white space after x2 nothing matches.
InsertY2(line, value) ==
    LET first == line.tail[1]
    IN  IF first.gap = 0 THEN line
        ELSE IF first.name # "y2"
        THEN [line EXCEPT !.tail = <<Attr(first.gap, "y2", value),
                                     [first EXCEPT !.gap = 1]>>
                                       \o Tail(line.tail)]
        ELSE IF first.gap >= 2
        THEN [line EXCEPT !.tail = <<Attr(first.gap - 1, "y2", value),
                                     [first EXCEPT !.gap = 2]>>
                                       \o Tail(line.tail)]
        ELSE line

\* r'\1y2="\3" \5': the value inserted is that of y1
FixHorizontal(line) == InsertY2(line, line.y1)

\* x2="\2" asks x2 to repeat the value of x1; r'\1y2="50" \4'
FixVertical(line) ==
    IF line.x2 = line.x1 THEN InsertY2(line, "50") ELSE line

\* 1. the four substitutions, in the order of the code
RepairLine(line) ==
    FixVertical(FixHorizontal(FixDuplicateX2(FixDuplicateY1(line))))

RepairElement(elem) ==
    IF elem.e = "line" THEN RepairLine(elem) ELSE elem

(***************************************************************************)
(* fix_svg_errors, step 2: formulas in text elements                       *)
(***************************************************************************)

\* '\\frac{' in svg_code (the other two commands are not in the alphabet)
HasFraction(elem) ==
    elem.e = "text" /\ elem.body = "frac" /\ ~elem.translated

complex_formula_detected(doc) ==
    \E i \in DOMAIN doc.elems : HasFraction(doc.elems[i])

\* text_content.replace('\\mathbf{', '<tspan font-weight="bold">')
Preprocess(c) ==
    IF c.body = "bold" /\ ~c.translated
    THEN [c EXCEPT !.opens = @ + 1, !.translated = TRUE]
    ELSE c

\* for _ in range(open_tspans - close_tspans): text_content += '</tspan>'
CloseOpenTspans(c) ==
    IF c.opens > c.closes THEN [c EXCEPT !.closes = c.opens] ELSE c

\* replace_latex_formula: $formula$ becomes <tspan ..>formula</tspan>,
\* unless the formula begins with <tspan, which \mathbf{ has made it do.
WrapFormula(c) ==
    IF c.body = "bold" THEN c
    ELSE [c EXCEPT !.dollar = FALSE, !.translated = TRUE,
                   !.opens = @ + 1, !.closes = @ + 1]

\* re.sub(r'\\frac{([^}]+)}{([^}]+)}', r'<tspan ..>(\1)/(\2)</tspan>', ..)
TranslateFraction(c) ==
    IF c.body = "frac"
    THEN [c EXCEPT !.opens = @ + 1, !.closes = @ + 1]
    ELSE c

\* The translation is kept whatever it counts.
KeepTranslation(c, original_content) == c

\* if text_content.count('<tspan') != text_content.count('</tspan>'):
\*     text_content = original_content
KeepIfBalanced(c, original_content) ==
    IF c.opens # c.closes THEN original_content ELSE c

\* if '$' not in text_content: return full_text; otherwise the steps above
replace_latex_in_text(elem) ==
    IF ~elem.dollar THEN elem
    ELSE KeepIfBalanced(
             TranslateFraction(WrapFormula(CloseOpenTspans(Preprocess(elem)))),
             elem)

TranslateElement(elem) ==
    IF elem.e = "text" THEN replace_latex_in_text(elem) ELSE elem

\* math_style goes before </defs>, or a new <defs> block after <svg ..>
InjectStyle(doc) ==
    [doc EXCEPT !.defs = TRUE, !.styles = doc.styles + 1]

(***************************************************************************)
(* fix_svg_errors, steps 3 to 5: the two captioned figures                 *)
(***************************************************************************)

is_figure8(doc) == "fig8" \in doc.caption

is_figure9(doc) == "fig9" \in doc.caption

\* <rect[^>]*?fill="(?:black|#000000|#000)"[^>]*?>
IsBlackRect(elem) ==
    elem.e = "rect" /\ elem.fill \in {"black", "#000000", "#000"}

\* <rect\s+[^>]*?y="(1[5-8][0-9])"[^>]*?fill="(?:black|#000000|#000)"[^>]*?>
special_pattern(elem) == IsBlackRect(elem) /\ elem.y \in 150..189

\* re.sub(special_pattern, '<!-- .. -->', svg_code)
RemoveByPosition(doc) ==
    [doc EXCEPT !.elems =
        [i \in DOMAIN doc.elems |->
            IF special_pattern(doc.elems[i])
            THEN Comment("black strip removed")
            ELSE doc.elems[i]]]

\* width = float(..); height = float(..), outside any try
FloatRaises(elem) == IsBlackRect(elem) /\ ~elem.plain

\* if width > 5 * height and height < 40: return '<!-- .. -->'
remove_black_strip_special(rect) ==
    IF rect.width > 5 * rect.height /\ rect.height < 40
    THEN Comment("wide flat black strip removed")
    ELSE rect

\* re.sub(special_pattern2, remove_black_strip_special, svg_code)
RemoveBySize(doc) ==
    [doc EXCEPT !.elems =
        [i \in DOMAIN doc.elems |->
            IF IsBlackRect(doc.elems[i])
            THEN remove_black_strip_special(doc.elems[i])
            ELSE doc.elems[i]]]

\* len(re.findall(r'<rect[^>]*?fill="(?:black|#000000|#000)"[^>]*?>', ..))
fixed_black_rect_count(doc) ==
    Cardinality({i \in DOMAIN doc.elems : IsBlackRect(doc.elems[i])})

\* re.search(r'<line[^>]*?x1=".."\s+y1=".."\s+x2=".."[^>]*?>', svg_code)
has_axes(doc) == \E i \in DOMAIN doc.elems : doc.elems[i].e = "line"

AxisStroke ==
    <<Attr(1, "stroke", "rgba(0,0,0,0.8)"), Attr(1, "stroke-width", "2"),
      End(0)>>

\* The two lines put before </svg>.
DefaultAxes ==
    <<Line("50", "320", "650", <<Attr(1, "y2", "320")>> \o AxisStroke),
      Line("50", "50", "50", <<Attr(1, "y2", "320")>> \o AxisStroke)>>

\* 4. if not has_axes: if is_figure9 .. elif is_figure8 ..
RestoreAxes(doc) ==
    IF ~has_axes(doc) /\ (is_figure9(doc) \/ is_figure8(doc))
    THEN [doc EXCEPT !.elems = @ \o DefaultAxes]
    ELSE doc

\* The predefined figure: its background, its axes and its text, which
\* holds the caption and no formula.
fallback_svg(fig) ==
    [caption |-> {fig}, defs |-> FALSE, styles |-> 0,
     elems |-> <<Rect(0, 700, 400, TRUE, "#f8f9fa"), Text(FALSE, "x")>>
                   \o DefaultAxes]

\* What a call gives when it ends with an exception.
Raised(what) == [raised |-> what]

IsDocument(r) == "elems" \in DOMAIN r

\* Steps 3 to 5, on the document that steps 1 and 2 have made.
FigureSteps(doc) ==
    IF ~(is_figure8(doc) \/ is_figure9(doc)) THEN doc
    ELSE IF \E i \in DOMAIN doc.elems :
                FloatRaises(RemoveByPosition(doc).elems[i])
    THEN Raised("ValueError")
    ELSE LET stripped == RemoveBySize(RemoveByPosition(doc))
         IN  IF fixed_black_rect_count(stripped) > 0
             THEN fallback_svg(IF is_figure8(doc) THEN "fig8" ELSE "fig9")
             ELSE RestoreAxes(stripped)

(***************************************************************************)
(* fix_svg_errors                                                          *)
(***************************************************************************)

fix_svg_errors(doc) ==
    LET repaired == [doc EXCEPT !.elems =
                        [i \in DOMAIN doc.elems |->
                            RepairElement(doc.elems[i])]]
        translated == [repaired EXCEPT !.elems =
                        [i \in DOMAIN repaired.elems |->
                            TranslateElement(repaired.elems[i])]]
    IN  FigureSteps(IF complex_formula_detected(repaired)
                    THEN InjectStyle(translated)
                    ELSE translated)

\* fix_svg_errors(svg_code), then once more on what it returned
Repair ==
    /\ runs < 2
    /\ runs = 1 => IsDocument(fixed[1])
    /\ fixed' = Append(fixed, fix_svg_errors(IF runs = 0 THEN svg_code
                                             ELSE fixed[runs]))
    /\ runs' = runs + 1
    /\ UNCHANGED svg_code
    /\ UNCHANGED outsideRepair

RepairInit ==
    /\ svg_code \in SvgDocuments
    /\ fixed = <<>>
    /\ runs = 0
    /\ markdown_text = <<>>
    /\ processed_text = <<>>
    /\ artifacts = <<>>
    /\ issued = <<>>
    /\ phase = "idle"
    /\ result_lines = <<>>
    /\ handed = <<>>
    /\ diagram = <<>>
    /\ nodes = <<>>
    /\ edges = <<>>
    /\ dot = <<>>
    /\ gpc = "idle"
    /\ cpc = "idle"
    /\ temp_dir = "absent"
    /\ queue = <<>>
    /\ typeset = 0
    /\ faults = {}
    /\ outcome = "idle"
    /\ artType = "-"
    /\ mermaid_content = "-"
    /\ MERMAID_AVAILABLE = FALSE
    /\ pc = "idle"
    /\ conversion_success = FALSE
    /\ png = "absent"
    /\ svgfile = "absent"
    /\ image_path = "none"
    /\ raised = FALSE
    /\ trail = <<>>

RepairNext == Repair

SpecRepair == RepairInit /\ [][RepairNext]_vars

(***************************************************************************)
(* Properties of fix_svg_errors                                            *)
(***************************************************************************)

Names(line) == [i \in 1..(Len(line.tail) - 1) |-> line.tail[i].name]

Count(names, name) == Cardinality({i \in DOMAIN names : names[i] = name})

\* x1, y1, x2 and y2, each exactly once.
FourCoordinates(line) ==
    /\ Count(Names(line), "y2") = 1
    /\ Count(Names(line), "y1") = 0
    /\ Count(Names(line), "x2") = 0

WellFormed(doc) ==
    \A i \in DOMAIN doc.elems :
        doc.elems[i].e = "line" => FourCoordinates(doc.elems[i])

\* C16: for every well-formed document, fix_svg_errors applied to its own
\* output returns that output unchanged.
C16_RepairIdempotent ==
    (runs = 2 /\ WellFormed(svg_code)) => fixed[2] = fixed[1]

\* The first call has returned its document and not the predefined figure:
\* element i of the output is what the call made of element i of the input.
Repaired ==
    /\ runs >= 1
    /\ IsDocument(fixed[1])
    /\ fixed[1] \notin {fallback_svg("fig8"), fallback_svg("fig9")}

\* A line to x2 = 650 that has x1, y1 and x2 and no y2.
MissingY2(elem) ==
    /\ elem.e = "line"
    /\ elem.x2 # elem.x1
    /\ Count(Names(elem), "y2") = 0
    /\ Count(Names(elem), "y1") = 0
    /\ Count(Names(elem), "x2") = 0

\* C17: a horizontal line that has x1, y1 and x2 and no y2 comes out of
\* fix_svg_errors with the four coordinates once each and y2 equal to y1.
C17_HorizontalLineCompleted ==
    Repaired =>
        \A i \in DOMAIN svg_code.elems :
            MissingY2(svg_code.elems[i])
                => /\ FourCoordinates(fixed[1].elems[i])
                   /\ \A j \in DOMAIN fixed[1].elems[i].tail :
                        fixed[1].elems[i].tail[j].name = "y2"
                            => fixed[1].elems[i].tail[j].val
                                   = svg_code.elems[i].y1

\* A line with x2 equal to x1 that has x1, y1 and x2 and no y2.
VerticalMissingY2(elem) ==
    /\ elem.e = "line"
    /\ elem.x2 = elem.x1
    /\ Count(Names(elem), "y2") = 0
    /\ Count(Names(elem), "y1") = 0
    /\ Count(Names(elem), "x2") = 0

\* C25: a vertical line that has x1, y1 and x2 and no y2 comes out of
\* fix_svg_errors with one y2, whose value is 50 and not the line's y1.
C25_VerticalLineDefault ==
    Repaired =>
        \A i \in DOMAIN svg_code.elems :
            VerticalMissingY2(svg_code.elems[i])
                => /\ FourCoordinates(fixed[1].elems[i])
                   /\ \A j \in DOMAIN fixed[1].elems[i].tail :
                        fixed[1].elems[i].tail[j].name = "y2"
                            => fixed[1].elems[i].tail[j].val = "50"

\* A rectangle whose width exceeds 5 times its height and whose height is
\* below 40.
StrayShape(elem) ==
    /\ elem.e = "rect"
    /\ elem.plain
    /\ elem.width > 5 * elem.height
    /\ elem.height < 40

\* C26: whatever the caption and the fill, fix_svg_errors replaces every
\* rectangle with width > 5 * height and height < 40 by a comment and
\* leaves every other rectangle unchanged.
C26_StrayShapesRemoved ==
    Repaired =>
        \A i \in DOMAIN svg_code.elems :
            svg_code.elems[i].e = "rect"
                => IF StrayShape(svg_code.elems[i])
                   THEN fixed[1].elems[i].e = "comment"
                   ELSE fixed[1].elems[i] = svg_code.elems[i]

\* A black rectangle that the removal of step 3 leaves in place.
RemainsBlack(elem) ==
    /\ IsBlackRect(elem)
    /\ ~special_pattern(elem)
    /\ ~StrayShape(elem)

\* C27: fix_svg_errors returns the predefined figure exactly when the
\* input carries a caption and a black rectangle remains after step 3,
\* and with both captions it returns the figure of the first.
C27_FallbackExactlyWhenBlackRemains ==
    runs >= 1 =>
        /\ fixed[1] \in {fallback_svg("fig8"), fallback_svg("fig9")}
              <=> /\ svg_code.caption # {}
                  /\ \E i \in DOMAIN svg_code.elems :
                        RemainsBlack(svg_code.elems[i])
        /\ (fixed[1] \in {fallback_svg("fig8"), fallback_svg("fig9")}
               /\ "fig8" \in svg_code.caption)
              => fixed[1] = fallback_svg("fig8")

\* C28: no call of fix_svg_errors ends with an exception; every call
\* returns markup.
C28_NeverRaises ==
    runs >= 1 => IsDocument(fixed[1])

\* C29: every text element comes out of the translation with as many
\* <tspan as </tspan>, or exactly as it went in.
C29_BalancedOrOriginal ==
    Repaired =>
        \A i \in DOMAIN svg_code.elems :
            svg_code.elems[i].e = "text"
                => \/ fixed[1].elems[i].opens = fixed[1].elems[i].closes
                   \/ fixed[1].elems[i] = svg_code.elems[i]

\* A formula whose translation counts one <tspan and two </tspan> has
\* come out as it went in.
C29_Witness ==
    /\ Repaired
    /\ \E i \in DOMAIN svg_code.elems :
          /\ svg_code.elems[i].e = "text"
          /\ svg_code.elems[i].dollar
          /\ svg_code.elems[i].body = "close"
          /\ fixed[1].elems[i] = svg_code.elems[i]

(***************************************************************************)
(* process_markdown_to_pdf: one conversion run                             *)
(*                                                                         *)
(* The run is followed statement by statement where a statement can fail:  *)
(* reading the input, writing an artifact's source file, the conversions   *)
(* of an artifact, writing temp.md and the header files, and the three     *)
(* pandoc calls.  What each of them does is chosen by the environment.     *)
(* The document is kept as the types of its artifacts, in the order of     *)
(* their placeholders.                                                     *)
(***************************************************************************)

MaxArtifacts == 2

ArtifactTypes == {"image/svg+xml", "application/vnd.chat.mermaid"}

ArtifactQueues == UNION {[1..n -> ArtifactTypes] : n \in 0..MaxArtifacts}

\* open(path, 'w') and f.write(..): done, or an OSError
WriteOutcomes == {"ok", "OSError"}

\* The conversions of one artifact, all inside try blocks: an asset was
\* made, or every tool failed and the last resort stands.
ToolOutcomes == {"ok", "failed"}

\* subprocess.run(cmd, check=True, ..): exit status 0, CalledProcessError
\* on another status, FileNotFoundError when there is no pandoc.
PandocOutcomes == {"ok", "CalledProcessError", "FileNotFoundError"}

Fault(stage, what) == [stage |-> stage, what |-> what]

\* A failure inside process_svg_artifact or process_mermaid_artifact.
ArtifactFault(type, what) ==
    [stage |-> "artifact", what |-> what, type |-> type]

\* The directory stays when the block is left.
Leaked(dir) == dir

\* TemporaryDirectory.__exit__ on leaving the with block, by return or by
\* exception
cleanup(dir) == "removed"

\* with tempfile.TemporaryDirectory() as temp_dir:
Enter ==
    /\ cpc = "start"
    /\ temp_dir' = "exists"
    /\ cpc' = "read"
    /\ UNCHANGED <<queue, typeset, faults, outcome>>
    /\ UNCHANGED outsideConvert

\* with open(input_path, 'r', encoding='utf-8') as f: markdown_text = f.read()
\* then, in markdown_to_pdf, extract_artifacts(markdown_text)
ReadInput ==
    /\ cpc = "read"
    /\ \E r \in WriteOutcomes :
        IF r = "ok"
        THEN cpc' = "replace" /\ faults' = faults
        ELSE cpc' = "except" /\ faults' = faults \cup {Fault("input", r)}
    /\ UNCHANGED <<temp_dir, queue, typeset, outcome>>
    /\ UNCHANGED outsideConvert

\* replace_artifacts_in_markdown reaching the next placeholder:
\* process_svg_artifact or process_mermaid_artifact writes the source file
\* (outside every try block) and then runs its conversions (inside).
RenderArtifact ==
    /\ cpc = "replace"
    /\ queue # <<>>
    /\ \E w \in WriteOutcomes, t \in ToolOutcomes :
        IF w = "OSError"
        THEN /\ cpc' = "except"
             /\ faults' = faults \cup {ArtifactFault(Head(queue), "write")}
             /\ queue' = queue
        ELSE /\ cpc' = "replace"
             /\ faults' = (IF t = "failed"
                           THEN faults \cup {ArtifactFault(Head(queue), "tool")}
                           ELSE faults)
             /\ queue' = Tail(queue)
    /\ UNCHANGED <<temp_dir, typeset, outcome>>
    /\ UNCHANGED outsideConvert

\* with open(temp_md_path, 'w', encoding='utf-8') as f:
\*     f.write(processed_markdown)
WriteTemp ==
    /\ cpc = "replace"
    /\ queue = <<>>
    /\ \E w \in WriteOutcomes :
        IF w = "ok"
        THEN cpc' = "header" /\ faults' = faults
        ELSE cpc' = "except" /\ faults' = faults \cup {Fault("temp.md", w)}
    /\ UNCHANGED <<temp_dir, queue, typeset, outcome>>
    /\ UNCHANGED outsideConvert

\* with open(header_file, 'w', encoding='utf-8') as f: f.write(r"""...""")
WriteHeader ==
    /\ cpc = "header"
    /\ \E w \in WriteOutcomes :
        IF w = "ok"
        THEN cpc' = "pandoc" /\ faults' = faults
        ELSE cpc' = "except" /\ faults' = faults \cup {Fault("header", w)}
    /\ UNCHANGED <<temp_dir, queue, typeset, outcome>>
    /\ UNCHANGED outsideConvert

\* What follows a pandoc call: leave on success, the next attempt on
\* CalledProcessError (the only exception the three handlers name), and
\* any other exception leaves markdown_to_pdf.
AfterPandoc(r, next) ==
    CASE r = "ok" -> "return"
      [] r = "CalledProcessError" -> next
      [] OTHER -> "except"

\* result = subprocess.run(cmd, check=True, capture_output=True, text=True)
Pandoc ==
    /\ cpc = "pandoc"
    /\ typeset' = typeset + 1
    /\ \E r \in PandocOutcomes :
        /\ cpc' = AfterPandoc(r, "fallback")
        /\ faults' = (IF r = "ok" THEN faults
                      ELSE faults \cup {Fault("typesetting", r)})
    /\ UNCHANGED <<temp_dir, queue, outcome>>
    /\ UNCHANGED outsideConvert

\* except subprocess.CalledProcessError: write simple_header.tex, then
\* subprocess.run(cmd_fallback, check=True, ..)
Fallback ==
    /\ cpc = "fallback"
    /\ \E w \in WriteOutcomes, r \in PandocOutcomes :
        IF w = "OSError"
        THEN /\ cpc' = "except"
             /\ faults' = faults \cup {Fault("header", w)}
             /\ typeset' = typeset
        ELSE /\ cpc' = AfterPandoc(r, "simplest")
             /\ faults' = (IF r = "ok" THEN faults
                           ELSE faults \cup {Fault("typesetting", r)})
             /\ typeset' = typeset + 1
    /\ UNCHANGED <<temp_dir, queue, outcome>>
    /\ UNCHANGED outsideConvert

\* except subprocess.CalledProcessError as e2:
\* subprocess.run(cmd_simple, check=True, ..); except ... as e3: raise
Simplest ==
    /\ cpc = "simplest"
    /\ typeset' = typeset + 1
    /\ \E r \in PandocOutcomes :
        /\ cpc' = AfterPandoc(r, "except")
        /\ faults' = (IF r = "ok" THEN faults
                      ELSE faults \cup {Fault("typesetting", r)})
    /\ UNCHANGED <<temp_dir, queue, outcome>>
    /\ UNCHANGED outsideConvert

\* Leaving the with block: after markdown_to_pdf has returned, or through
\* `except Exception as e: print(..); raise`.
ExitWith ==
    /\ cpc \in {"return", "except"}
    /\ temp_dir' = cleanup(temp_dir)
    /\ outcome' = (IF cpc = "return" THEN "returned" ELSE "raised")
    /\ cpc' = "done"
    /\ UNCHANGED <<queue, typeset, faults>>
    /\ UNCHANGED outsideConvert

ConvertInit ==
    /\ cpc = "start"
    /\ temp_dir = "absent"
    /\ queue \in ArtifactQueues
    /\ typeset = 0
    /\ faults = {}
    /\ outcome = "running"
    /\ svg_code = <<>>
    /\ fixed = <<>>
    /\ runs = 0
    /\ markdown_text = <<>>
    /\ processed_text = <<>>
    /\ artifacts = <<>>
    /\ issued = <<>>
    /\ phase = "idle"
    /\ result_lines = <<>>
    /\ handed = <<>>
    /\ diagram = <<>>
    /\ nodes = <<>>
    /\ edges = <<>>
    /\ dot = <<>>
    /\ gpc = "idle"
    /\ artType = "-"
    /\ mermaid_content = "-"
    /\ MERMAID_AVAILABLE = FALSE
    /\ pc = "idle"
    /\ conversion_success = FALSE
    /\ png = "absent"
    /\ svgfile = "absent"
    /\ image_path = "none"
    /\ raised = FALSE
    /\ trail = <<>>

ConvertNext ==
    \/ Enter \/ ReadInput \/ RenderArtifact \/ WriteTemp \/ WriteHeader
    \/ Pandoc \/ Fallback \/ Simplest \/ ExitWith

SpecConvert == ConvertInit /\ [][ConvertNext]_vars

(***************************************************************************)
(* Properties of a conversion run                                          *)
(***************************************************************************)

\* C19: when nothing fails in a run but steps of extracting, repairing or
\* rendering artifacts (writing an artifact's file included) and pandoc
\* calls, the run has reached the typesetting call when it ends.
C19_ArtifactFailuresAbsorbed ==
    (/\ outcome # "running"
     /\ \A f \in faults : f.stage \in {"artifact", "typesetting"})
        => typeset >= 1

\* C20: once process_markdown_to_pdf has returned or raised, the working
\* directory it created is gone.
C20_WorkingDirectoryRemoved ==
    outcome # "running" => temp_dir = "removed"

\* C20 witness: an artifact's conversions failed, the three pandoc calls
\* failed, the run has raised and the directory is gone.
C20_Witness ==
    /\ outcome = "raised"
    /\ typeset = 3
    /\ ArtifactFault("image/svg+xml", "tool") \in faults
    /\ temp_dir = "removed"

====
